---- MODULE Spec2Model ----
(***************************************************************************)
(* ebike-status: one request handler that fetches a station status feed,    *)
(* joins it against the hardcoded station directory Regions, and renders    *)
(* the result as HTML or plain text, either behind net/http or behind an    *)
(* API gateway event (AWSHandler).                                          *)
(*                                                                          *)
(* Two revisions of the program are in the source tree.  A behaviour is one *)
(* process of one revision; the variable build says which:                  *)
(*   "main.go"   src/main.go            index(w io.Writer) error             *)
(*   "part_000"  src/unnamed/part_000   index(w, r), ResponseWriter,         *)
(*                                      newRequest, plain text, totals       *)
(*                                                                          *)
(* Strings that the code inspects character by character (header names,     *)
(* header values) are sequences of one-character strings.  Strings that are *)
(* only copied or compared (station IDs, names) are TLA+ strings.           *)
(***************************************************************************)
EXTENDS Integers, Sequences, FiniteSets, TLC

VARIABLES build, Regions, req, rw, calls

vars == <<build, Regions, req, rw, calls>>

(***************************************************************************)
(* Bounds of the model.                                                     *)
(***************************************************************************)
\* longest feed (number of station records) a fetch returns under Spec
MaxFeedLen == 3
\* longest sequence of calls made on the ResponseWriter under SpecRW
MaxCalls == 4

(***************************************************************************)
(* Character strings.                                                       *)
(***************************************************************************)
Uppers == <<"A","B","C","D","E","F","G","H","I","J","K","L","M",
            "N","O","P","Q","R","S","T","U","V","W","X","Y","Z">>
Lowers == <<"a","b","c","d","e","f","g","h","i","j","k","l","m",
            "n","o","p","q","r","s","t","u","v","w","x","y","z">>

UpperSet == { Uppers[i] : i \in DOMAIN Uppers }
LowerSet == { Lowers[i] : i \in DOMAIN Lowers }
UpperToLower == [c \in UpperSet |-> Lowers[CHOOSE i \in DOMAIN Uppers : Uppers[i] = c]]
LowerToUpper == [c \in LowerSet |-> Uppers[CHOOSE i \in DOMAIN Lowers : Lowers[i] = c]]

IsUpper(c) == c \in UpperSet
IsLower(c) == c \in LowerSet
lowerCh(c) == IF IsUpper(c) THEN UpperToLower[c] ELSE c
upperCh(c) == IF IsLower(c) THEN LowerToUpper[c] ELSE c

\* strings.ToLower
ToLower(s) == [i \in DOMAIN s |-> lowerCh(s[i])]

\* strings.HasPrefix
HasPrefix(s, prefix) ==
    /\ Len(s) >= Len(prefix)
    /\ SubSeq(s, 1, Len(prefix)) = prefix

\* the bytes net/textproto accepts in a header field name (the apostrophe and
\* the backquote, which no name of the model uses, are left out)
TokenPunct == {"-", "!", "#", "$", "%", "&", "*", "+", ".", "^", "_", "|", "~"}
Digits == {"0","1","2","3","4","5","6","7","8","9"}
validHeaderFieldByte(c) == IsUpper(c) \/ IsLower(c) \/ c \in Digits \/ c \in TokenPunct

\* textproto.CanonicalMIMEHeaderKey: a name with a byte that is no token byte
\* is returned unchanged; otherwise the first letter and every letter after a
\* hyphen is upper-cased and every other letter lower-cased.
CanonicalMIMEHeaderKey(s) ==
    IF \E i \in DOMAIN s : ~validHeaderFieldByte(s[i])
    THEN s
    ELSE [i \in DOMAIN s |->
            IF i = 1 \/ s[i - 1] = "-" THEN upperCh(s[i]) ELSE lowerCh(s[i])]

sEmpty == << >>
sAccept == <<"A","c","c","e","p","t">>
sAcceptLower == <<"a","c","c","e","p","t">>
sUserAgent == <<"U","s","e","r","-","A","g","e","n","t">>
sUserAgentLower == <<"u","s","e","r","-","a","g","e","n","t">>
sContentType == <<"C","o","n","t","e","n","t","-","T","y","p","e">>
sXContentTypeOptions == <<"X","-","C","o","n","t","e","n","t","-","T","y","p","e","-",
                          "O","p","t","i","o","n","s">>
sNosniff == <<"n","o","s","n","i","f","f">>
sTextPlain == <<"t","e","x","t","/","p","l","a","i","n">>
sTextPlainUpper == <<"T","E","X","T","/","P","L","A","I","N">>
sTextHtml == <<"t","e","x","t","/","h","t","m","l">>
sTextPlainUtf8 == <<"t","e","x","t","/","p","l","a","i","n",";"," ",
                    "c","h","a","r","s","e","t","=","u","t","f","-","8">>
sCurlPrefix == <<"c","u","r","l","/">>
sCurl7 == <<"c","u","r","l","/","7">>
sCurlMixed == <<"C","u","r","L","/","8">>
sLibcurl == <<"l","i","b","c","u","r","l","/","7">>
sCurlNoSlash == <<"c","u","r","l">>
sMozilla == <<"M","o","z","i","l","l","a">>

(***************************************************************************)
(* http.Header: a map from canonical header name to its list of values.     *)
(***************************************************************************)
EmptyHeader == [k \in {} |-> << >>]

\* http.Header.Set: the canonical name gets exactly the one value
Header_Set(h, key, value) ==
    LET ck == CanonicalMIMEHeaderKey(key)
    IN  [k \in DOMAIN h \cup {ck} |-> IF k = ck THEN <<value>> ELSE h[k]]

\* http.Header.Add: the value is appended to the list of the canonical name
Header_Add(h, key, value) ==
    LET ck == CanonicalMIMEHeaderKey(key)
    IN  [k \in DOMAIN h \cup {ck} |->
            IF k = ck THEN (IF ck \in DOMAIN h THEN Append(h[ck], value) ELSE <<value>>)
            ELSE h[k]]

\* http.Header.Get: the first value of the canonical name, "" when there is none
Header_Get(h, key) ==
    LET ck == CanonicalMIMEHeaderKey(key)
    IN  IF ck \in DOMAIN h /\ Len(h[ck]) > 0 THEN h[ck][1] ELSE sEmpty

(***************************************************************************)
(* The station directory (var Regions) of each revision.                    *)
(***************************************************************************)
green == "green"
yellow == "yellow"
red == "red"

\* a directory entry: ID and Name are set, Count and CSSClass are zero values
StationInfo(id, name) == [ID |-> id, Name |-> name, Count |-> 0, CSSClass |-> ""]

RegionsMain ==
    << [Name |-> "Embarcadero",
        Stations |-> << StationInfo("22", "Howard St at Beale St"),
                        StationInfo("17", "Beale St at Market St"),
                        StationInfo("20", "Market St at Bush St") >>],
       [Name |-> "Mission",
        Stations |-> << StationInfo("139", "25th St at Harrison St"),
                        StationInfo("129", "Harrison St at 20th St"),
                        StationInfo("125", "20th St at Bryant St"),
                        StationInfo("124", "19th St at Florida St") >>],
       [Name |-> "Potrero",
        Stations |-> << StationInfo("130", "22nd St Caltrain Station"),
                        StationInfo("126", "Esprit Park") >>] >>

RegionsPart000 ==
    << [Name |-> "Embarcadero",
        Stations |-> << StationInfo("22", "Howard St at Beale St"),
                        StationInfo("17", "Beale St at Market St"),
                        StationInfo("20", "Market St at Bush St"),
                        StationInfo("27", "Beale St at Harrison St") >>],
       [Name |-> "Mission",
        Stations |-> << StationInfo("139", "25th St at Harrison St"),
                        StationInfo("129", "Harrison St at 20th St"),
                        StationInfo("125", "20th St at Bryant St"),
                        StationInfo("124", "19th St at Florida St") >>],
       [Name |-> "Potrero",
        Stations |-> << StationInfo("130", "22nd St Caltrain Station"),
                        StationInfo("126", "Esprit Park") >>] >>

Builds == {"main.go", "part_000"}
RegionsOf(b) == IF b = "main.go" THEN RegionsMain ELSE RegionsPart000

(***************************************************************************)
(* The feed: StationStatus records (the fields the program reads).          *)
(***************************************************************************)
StationStatus(id, ebikes, bikes) ==
    [ID |-> id, NumEbikesAvailable |-> ebikes, NumBikesAvailable |-> bikes]

\* the zero value a failed map lookup yields
ZeroStationStatus == StationStatus("", 0, 0)

EmptyStations == [k \in {} |-> ZeroStationStatus]

\* MapPut with the first record of an ID kept
MapPutKeepFirst(m, id, sta) ==
    IF id \in DOMAIN m THEN m ELSE [k \in DOMAIN m \cup {id} |-> IF k = id THEN sta ELSE m[k]]

\* stations[sta.ID] = sta
MapPut(m, id, sta) == [k \in DOMAIN m \cup {id} |-> IF k = id THEN sta ELSE m[k]]

\* feedLoop with the totals taken once per station ID
RECURSIVE feedLoopDistinct(_, _, _)
feedLoopDistinct(feed, i, acc) ==
    IF i > Len(feed) THEN acc
    ELSE feedLoopDistinct(feed, i + 1,
            [classicCount |-> IF feed[i].ID \in DOMAIN acc.stations THEN acc.classicCount
                              ELSE acc.classicCount + feed[i].NumBikesAvailable,
             ebikeCount   |-> IF feed[i].ID \in DOMAIN acc.stations THEN acc.ebikeCount
                              ELSE acc.ebikeCount + feed[i].NumEbikesAvailable,
             stations     |-> [k \in DOMAIN acc.stations \cup {feed[i].ID} |->
                                 IF k = feed[i].ID THEN feed[i] ELSE acc.stations[k]]])

\* the loop of index over resp.Data.Stations (part_000): both totals are summed
\* over every record, and the map keeps the record stored last under each ID
RECURSIVE feedLoop(_, _, _)
feedLoop(feed, i, acc) ==
    IF i > Len(feed) THEN acc
    ELSE feedLoop(feed, i + 1,
            [classicCount |-> acc.classicCount + feed[i].NumBikesAvailable,
             ebikeCount   |-> acc.ebikeCount + feed[i].NumEbikesAvailable,
             stations     |-> MapPut(acc.stations, feed[i].ID, feed[i])])

\* the loop of index over resp.Data.Stations (main.go): the map only
RECURSIVE feedLoopMain(_, _, _)
feedLoopMain(feed, i, stations) ==
    IF i > Len(feed) THEN stations
    ELSE feedLoopMain(feed, i + 1, MapPut(stations, feed[i].ID, feed[i]))

(***************************************************************************)
(* populateCounts                                                           *)
(***************************************************************************)
\* stationStep with the test of ok inverted
stationStepInverted(inf, stations) ==
    LET ok     == inf.ID \in DOMAIN stations
        status == IF ok THEN stations[inf.ID] ELSE ZeroStationStatus
        inf1   == IF ok THEN [inf EXCEPT !.CSSClass = red] ELSE inf
    IN  [inf1 EXCEPT !.Count = status.NumEbikesAvailable]

\* the body of the inner loop: inf is a copy of the directory entry
stationStep(inf, stations) ==
    LET ok     == inf.ID \in DOMAIN stations
        status == IF ok THEN stations[inf.ID] ELSE ZeroStationStatus
        inf1   == IF ~ok THEN [inf EXCEPT !.CSSClass = red] ELSE inf
    IN  [inf1 EXCEPT !.Count = status.NumEbikesAvailable]

\* stationLoop with each station put in front of the output
RECURSIVE stationLoopPrepend(_, _, _, _)
stationLoopPrepend(sts, j, stations, out) ==
    IF j > Len(sts) THEN out
    ELSE stationLoopPrepend(sts, j + 1, stations,
            << [sts[j] EXCEPT !.Count = IF sts[j].ID \in DOMAIN stations
                                         THEN stations[sts[j].ID].NumEbikesAvailable ELSE 0,
                              !.CSSClass = IF sts[j].ID \in DOMAIN stations THEN @ ELSE red] >>
            \o out)

RECURSIVE stationLoop(_, _, _, _)
stationLoop(sts, j, stations, out) ==
    IF j > Len(sts) THEN out
    ELSE stationLoop(sts, j + 1, stations, Append(out, stationStep(sts[j], stations)))

RECURSIVE regionLoop(_, _, _, _)
regionLoop(regions, i, stations, outRegions) ==
    IF i > Len(regions) THEN outRegions
    ELSE regionLoop(regions, i + 1, stations,
            Append(outRegions,
                   [Name     |-> regions[i].Name,
                    Stations |-> stationLoop(regions[i].Stations, 1, stations, << >>)]))

\* populateCounts ranging by reference: the counts and tiers land in Regions
RegionsWrittenInPlace(regions, stations) ==
    [i \in DOMAIN regions |->
        [Name     |-> regions[i].Name,
         Stations |-> [j \in DOMAIN regions[i].Stations |->
                         IF regions[i].Stations[j].ID \in DOMAIN stations
                         THEN [regions[i].Stations[j] EXCEPT
                                 !.Count = stations[regions[i].Stations[j].ID].NumEbikesAvailable]
                         ELSE [regions[i].Stations[j] EXCEPT !.Count = 0, !.CSSClass = red]]]]

\* what the call leaves in the package variable Regions: both loops range by
\* value (r and inf are copies), so the assignments to inf never reach it
RegionsAfterPopulate(regions, stations) == regions

\* populateCounts(stations), reading the package variable (here: regions)
populateCounts(regions, stations) == regionLoop(regions, 1, stations, << >>)

(***************************************************************************)
(* Response writers.  A body is the sequence of pieces written so far; a    *)
(* Write payload is a sequence of pieces, appended to it.                   *)
(*   "ResponseWriter"  the gateway ResponseWriter of part_000               *)
(*   "http"            the response writer net/http hands a handler: the    *)
(*                     first WriteHeader (or Write, with 200) fixes status  *)
(*                     and headers, later calls do not change them          *)
(*   "Buffer"          the bytes.Buffer of AWSHandler in main.go             *)
(***************************************************************************)
StatusOK == 200
StatusInternalServerError == 500

NoWriter == [kind |-> "none", b |-> << >>]

newRespsonseWriter ==
    [kind       |-> "ResponseWriter",
     header     |-> Header_Set(EmptyHeader, sContentType, sTextHtml),
     b          |-> << >>,
     statusCode |-> StatusOK]

ResponseWriter_Write(w, p) == [w EXCEPT !.b = @ \o p]

\* WriteHeader that, like net/http, is ignored once body bytes were written
ResponseWriter_WriteHeaderOnce(w, statusCode) ==
    IF w.b = << >> THEN [w EXCEPT !.statusCode = statusCode] ELSE w

ResponseWriter_WriteHeader(w, statusCode) == [w EXCEPT !.statusCode = statusCode]

\* Response(): the first value of every header that has one, the status, the body
Response(w) ==
    [StatusCode |-> w.statusCode,
     Headers    |-> [k \in {x \in DOMAIN w.header : Len(w.header[x]) > 0} |-> w.header[k][1]],
     Body       |-> w.b]

newServerWriter ==
    [kind        |-> "http",
     header      |-> EmptyHeader,
     b           |-> << >>,
     status      |-> 0,
     wroteHeader |-> FALSE,
     sent        |-> EmptyHeader]

serverWriteHeader(w, code) ==
    IF w.wroteHeader THEN w
    ELSE [w EXCEPT !.wroteHeader = TRUE, !.status = code, !.sent = w.header]

serverWrite(w, p) ==
    LET w1 == serverWriteHeader(w, StatusOK)
    IN  [w1 EXCEPT !.b = @ \o p]

newBuffer == [kind |-> "Buffer", b |-> << >>]

\* w.Write(p) through the interface
Write(w, p) ==
    CASE w.kind = "ResponseWriter" -> ResponseWriter_Write(w, p)
      [] w.kind = "http"           -> serverWrite(w, p)
      [] OTHER                     -> [w EXCEPT !.b = @ \o p]

\* w.WriteHeader(code) through the interface
WriteHeader(w, code) ==
    CASE w.kind = "ResponseWriter" -> ResponseWriter_WriteHeader(w, code)
      [] OTHER                     -> serverWriteHeader(w, code)

\* w.Header().Set(key, value): Header() returns the live map
SetHeader(w, key, value) == [w EXCEPT !.header = Header_Set(@, key, value)]

\* a sequence of Write calls, one piece each
RECURSIVE writeAll(_, _, _)
writeAll(w, pieces, i) ==
    IF i > Len(pieces) THEN w
    ELSE writeAll(Write(w, <<pieces[i]>>), pieces, i + 1)

\* http.Error without the call of WriteHeader
httpErrorNoStatus(w, error, code) ==
    LET w1 == [w EXCEPT !.header = Header_Set(@, sContentType, sTextPlainUtf8)]
        w2 == [w1 EXCEPT !.header = Header_Set(@, sXContentTypeOptions, sNosniff)]
    IN  Write(w2, << [t |-> "error", msg |-> error] >>)

\* http.Error(w, error, code)
httpError(w, error, code) ==
    LET w1 == SetHeader(w, sContentType, sTextPlainUtf8)
        w2 == SetHeader(w1, sXContentTypeOptions, sNosniff)
        w3 == WriteHeader(w2, code)
    IN  Write(w3, << [t |-> "error", msg |-> error] >>)

(***************************************************************************)
(* Rendering.  tmpl.Execute writes the output piece by piece and stops at   *)
(* the first error; the only error the data can cause is the call of Bars   *)
(* on a negative Count (make panics, the template engine returns the panic  *)
(* as the error of Execute), after the start of that row was written.       *)
(***************************************************************************)
RowPiece(s) == [t |-> "row", CSSClass |-> s.CSSClass, ID |-> s.ID, Name |-> s.Name,
                Bars |-> s.Count]
RowStartPiece(s) == [t |-> "rowstart", CSSClass |-> s.CSSClass, ID |-> s.ID, Name |-> s.Name]

\* {{range .Stations}} ... {{range .Bars}} ... {{end}} ... {{end}}
RECURSIVE execStations(_, _)
execStations(sts, j) ==
    IF j > Len(sts) THEN [out |-> << >>, err |-> FALSE]
    ELSE IF sts[j].Count < 0 THEN [out |-> << RowStartPiece(sts[j]) >>, err |-> TRUE]
    ELSE LET rest == execStations(sts, j + 1)
         IN  [out |-> << RowPiece(sts[j]) >> \o rest.out, err |-> rest.err]

\* {{range .Regions}} ... {{end}}
RECURSIVE execRegions(_, _)
execRegions(regions, i) ==
    IF i > Len(regions) THEN [out |-> << >>, err |-> FALSE]
    ELSE LET here == execStations(regions[i].Stations, 1)
             head == << [t |-> "region", Name |-> regions[i].Name] >>
         IN  IF here.err THEN [out |-> head \o here.out, err |-> TRUE]
             ELSE LET rest == execRegions(regions, i + 1)
                  IN  [out |-> head \o here.out \o rest.out, err |-> rest.err]

\* tmpl.Execute(w, d) of part_000: the regions, then the SystemInfo totals
tmplExecute(w, d) ==
    LET body == execRegions(d.Regions, 1)
        head == << [t |-> "head"] >>
        tail == << [t |-> "totals", EbikeCount |-> d.EbikeCount,
                    ClassicCount |-> d.ClassicCount],
                   [t |-> "end"] >>
    IN  IF body.err THEN [w |-> writeAll(w, head \o body.out, 1), err |-> TRUE]
        ELSE [w |-> writeAll(w, head \o body.out \o tail, 1), err |-> FALSE]

\* tmpl.Execute(w, d) of main.go: the regions only
tmplExecuteMain(w, d) ==
    LET body == execRegions(d.Regions, 1)
        head == << [t |-> "head"] >>
        tail == << [t |-> "end"] >>
    IN  IF body.err THEN [w |-> writeAll(w, head \o body.out, 1), err |-> TRUE]
        ELSE [w |-> writeAll(w, head \o body.out \o tail, 1), err |-> FALSE]

\* the plain text lines, one Fprintf per station ("%12.12s %25.25s %d\n": no
\* name of the directory is longer than its precision, so none is cut)
RECURSIVE textLines(_, _, _)
textLines(regions, i, j) ==
    IF i > Len(regions) THEN << >>
    ELSE IF j > Len(regions[i].Stations) THEN textLines(regions, i + 1, 1)
    ELSE << [t |-> "line", Region |-> regions[i].Name,
             Name |-> regions[i].Stations[j].Name,
             Count |-> regions[i].Stations[j].Count] >>
         \o textLines(regions, i, j + 1)

\* r.UserAgent()
UserAgent(r) == Header_Get(r.Header, sUserAgent)

\* the condition of index without strings.ToLower
wantsPlainTextCaseSensitive(r) ==
    \/ Header_Get(r.Header, sAccept) = sTextPlain
    \/ HasPrefix(UserAgent(r), sCurlPrefix)

\* the condition of index that selects plain text
wantsPlainText(r) ==
    \/ Header_Get(r.Header, sAccept) = sTextPlain
    \/ HasPrefix(ToLower(UserAgent(r)), sCurlPrefix)

\* index (part_000), a failed http.Get or Decode
indexFetchFailed(w) == httpError(w, "Get Status Failed", StatusInternalServerError)

\* index (part_000), from the Accept / User-Agent test to its return
indexRender(w, r, regions, ebikeCount, classicCount) ==
    IF wantsPlainText(r)
    THEN writeAll(SetHeader(w, sContentType, sTextPlain), textLines(regions, 1, 1), 1)
    ELSE LET d == [EbikeCount |-> ebikeCount, ClassicCount |-> classicCount,
                   Regions |-> regions]
             e == tmplExecute(w, d)
         IN  IF e.err THEN httpError(e.w, "Template Error", StatusInternalServerError)
             ELSE e.w

\* index (main.go), from tmpl.Execute to its return: the writer and the error
indexRenderMain(w, regions) ==
    LET e == tmplExecuteMain(w, [Regions |-> regions])
    IN  [w |-> e.w, err |-> IF e.err THEN "Template Error" ELSE ""]

\* rootHandler (main.go) after index returned err
rootHandlerReturn(w, err) ==
    IF err # "" THEN httpError(w, err, StatusInternalServerError) ELSE w

NoHeaders == [k \in {} |-> sEmpty]
NoResponse == [StatusCode |-> 0, Headers |-> NoHeaders, Body |-> << >>]

\* AWSHandler (main.go) after index returned err, b being the buffer
AWSHandlerReturnMain(b, err) ==
    IF err # ""
    THEN [StatusCode |-> StatusInternalServerError, Headers |-> NoHeaders, Body |-> << >>]
    ELSE [StatusCode |-> StatusOK,
          Headers    |-> [k \in {sContentType} |-> sTextHtml],
          Body       |-> b.b]

(***************************************************************************)
(* Requests.                                                                *)
(***************************************************************************)
NoParams == [k \in {} |-> ""]

NoEvent == [HTTPMethod |-> "", Path |-> "", QueryStringParameters |-> NoParams,
            Headers |-> NoHeaders, Body |-> "", SourceIP |-> ""]

NoRequest == [Method |-> "", Path |-> "", Query |-> NoParams, Header |-> EmptyHeader,
              Body |-> "", RemoteAddr |-> ""]

\* the orders in which a range over a map with key set S can visit the keys
Orders(S) == {f \in [1..Cardinality(S) -> S] : \A i, j \in DOMAIN f : f[i] = f[j] => i = j}

\* for k, v := range req.Headers { httpReq.Header.Set(k, v) }, visiting in order
RECURSIVE setHeaders(_, _, _, _)
setHeaders(h, headers, order, i) ==
    IF i > Len(order) THEN h
    ELSE setHeaders(Header_Set(h, order[i], headers[order[i]]), headers, order, i + 1)

\* newRequest(req): params is declared and never made, so the first params.Set
\* is an assignment to an entry of a nil map and panics; with no query
\* parameters the URL is built and parsed back (host and scheme, which index
\* never reads, are left out) and the event fields are copied.
newRequest(ev, order) ==
    IF DOMAIN ev.QueryStringParameters # {}
    THEN [panic |-> TRUE, r |-> NoRequest]
    ELSE [panic |-> FALSE,
          r |-> [Method     |-> ev.HTTPMethod,
                 Path       |-> ev.Path,
                 Query      |-> NoParams,
                 Header     |-> setHeaders(EmptyHeader, ev.Headers, order, 1),
                 Body       |-> ev.Body,
                 RemoteAddr |-> ev.SourceIP]]

Slots == {1, 2}

Idle ==
    [pc |-> "idle", entry |-> "none", event |-> NoEvent, r |-> NoRequest,
     fetch |-> "none", feed |-> << >>, stations |-> EmptyStations,
     classicCount |-> 0, ebikeCount |-> 0, regions |-> << >>,
     w |-> NoWriter, resp |-> NoResponse]

(***************************************************************************)
(* The handlers, step by step.  A request of slot s is at                   *)
(*   idle    no request                                                     *)
(*   get     before http.Get / Decode                                       *)
(*   join    feed decoded, before the loop over the feed and populateCounts *)
(*   render  before the Accept test / tmpl.Execute                          *)
(*   done    the handler returned (resp is the gateway response)            *)
(*   panic   the handler panicked                                           *)
(***************************************************************************)
\* net/http calls the handler registered for "/" (index, or rootHandler)
ServeHTTP(s, r0) ==
    /\ req[s].pc = "idle"
    /\ req' = [req EXCEPT ![s] =
                 [Idle EXCEPT !.pc = "get", !.entry = "http", !.r = r0,
                              !.w = newServerWriter]]
    /\ UNCHANGED <<build, Regions, rw, calls>>

\* AWSHandler (part_000) up to the call of index
AWSHandlerEnter(s, ev) ==
    /\ build = "part_000"
    /\ req[s].pc = "idle"
    /\ \E order \in Orders(DOMAIN ev.Headers) :
         LET nr == newRequest(ev, order)
         IN  req' = [req EXCEPT ![s] =
                       IF nr.panic
                       THEN [Idle EXCEPT !.pc = "panic", !.entry = "aws", !.event = ev,
                                         !.w = newRespsonseWriter]
                       ELSE [Idle EXCEPT !.pc = "get", !.entry = "aws", !.event = ev,
                                         !.r = nr.r, !.w = newRespsonseWriter]]
    /\ UNCHANGED <<build, Regions, rw, calls>>

\* AWSHandler (main.go) up to the call of index
AWSHandlerEnterMain(s, ev) ==
    /\ build = "main.go"
    /\ req[s].pc = "idle"
    /\ req' = [req EXCEPT ![s] =
                 [Idle EXCEPT !.pc = "get", !.entry = "aws", !.event = ev,
                              !.w = newBuffer]]
    /\ UNCHANGED <<build, Regions, rw, calls>>

\* the request after http.Get or Decode failed, up to the return of the handler
afterFetchFailed(b, q, kind) ==
    IF b = "part_000"
    THEN LET w1 == indexFetchFailed(q.w)
         IN  [q EXCEPT !.pc = "done", !.fetch = kind, !.w = w1,
                       !.resp = IF q.entry = "aws" THEN Response(w1) ELSE NoResponse]
    ELSE IF q.entry = "aws"
         THEN [q EXCEPT !.pc = "done", !.fetch = kind,
                        !.resp = AWSHandlerReturnMain(q.w, "Get Status Failed")]
         ELSE [q EXCEPT !.pc = "done", !.fetch = kind,
                        !.w = rootHandlerReturn(q.w, "Get Status Failed")]

\* http.Get returns an error, or the body does not decode
GetFails(s, kind) ==
    /\ req[s].pc = "get"
    /\ req' = [req EXCEPT ![s] = afterFetchFailed(build, req[s], kind)]
    /\ UNCHANGED <<build, Regions, rw, calls>>

\* http.Get and Decode succeed: resp.Data.Stations is feed
GetOK(s, feed) ==
    /\ req[s].pc = "get"
    /\ req' = [req EXCEPT ![s] = [@ EXCEPT !.pc = "join", !.fetch = "ok", !.feed = feed]]
    /\ UNCHANGED <<build, Regions, rw, calls>>

\* the request after the loop over the feed and populateCounts
afterJoin(b, q, regions) ==
    IF b = "part_000"
    THEN LET acc == feedLoop(q.feed, 1, [classicCount |-> 0, ebikeCount |-> 0,
                                          stations |-> EmptyStations])
         IN  [q EXCEPT !.pc = "render", !.stations = acc.stations,
                       !.classicCount = acc.classicCount, !.ebikeCount = acc.ebikeCount,
                       !.regions = populateCounts(regions, acc.stations)]
    ELSE LET stations == feedLoopMain(q.feed, 1, EmptyStations)
         IN  [q EXCEPT !.pc = "render", !.stations = stations,
                       !.regions = populateCounts(regions, stations)]

Join(s) ==
    /\ req[s].pc = "join"
    /\ req' = [req EXCEPT ![s] = afterJoin(build, req[s], Regions)]
    /\ Regions' = RegionsAfterPopulate(Regions, req'[s].stations)
    /\ UNCHANGED <<build, rw, calls>>

\* the request after rendering, up to the return of the handler
afterRender(b, q) ==
    IF b = "part_000"
    THEN LET w1 == indexRender(q.w, q.r, q.regions, q.ebikeCount, q.classicCount)
         IN  [q EXCEPT !.pc = "done", !.w = w1,
                       !.resp = IF q.entry = "aws" THEN Response(w1) ELSE NoResponse]
    ELSE LET e == indexRenderMain(q.w, q.regions)
         IN  IF q.entry = "aws"
             THEN [q EXCEPT !.pc = "done", !.w = e.w,
                            !.resp = AWSHandlerReturnMain(e.w, e.err)]
             ELSE [q EXCEPT !.pc = "done", !.w = rootHandlerReturn(e.w, e.err)]

Render(s) ==
    /\ req[s].pc = "render"
    /\ req' = [req EXCEPT ![s] = afterRender(build, req[s])]
    /\ UNCHANGED <<build, Regions, rw, calls>>

\* the response is delivered (or the panic reported); the slot is free again
Return(s) ==
    /\ req[s].pc \in {"done", "panic"}
    /\ req' = [req EXCEPT ![s] = Idle]
    /\ UNCHANGED <<build, Regions, rw, calls>>

(***************************************************************************)
(* The calls a caller can make on a gateway ResponseWriter (SpecRW): rw is  *)
(* the writer, calls the log of the calls made on it.                       *)
(***************************************************************************)
CallSet(k, v) ==
    /\ Len(calls) < MaxCalls
    /\ rw' = SetHeader(rw, k, v)
    /\ calls' = Append(calls, [op |-> "Set", key |-> k, value |-> v])
    /\ UNCHANGED <<build, Regions, req>>

CallAdd(k, v) ==
    /\ Len(calls) < MaxCalls
    /\ rw' = [rw EXCEPT !.header = Header_Add(@, k, v)]
    /\ calls' = Append(calls, [op |-> "Add", key |-> k, value |-> v])
    /\ UNCHANGED <<build, Regions, req>>

CallWrite(p) ==
    /\ Len(calls) < MaxCalls
    /\ rw' = ResponseWriter_Write(rw, p)
    /\ calls' = Append(calls, [op |-> "Write", p |-> p])
    /\ UNCHANGED <<build, Regions, req>>

CallWriteHeader(code) ==
    /\ Len(calls) < MaxCalls
    /\ rw' = ResponseWriter_WriteHeader(rw, code)
    /\ calls' = Append(calls, [op |-> "WriteHeader", code |-> code])
    /\ UNCHANGED <<build, Regions, req>>

(***************************************************************************)
(* Inputs.                                                                  *)
(***************************************************************************)
\* station records of a feed: "22" and "126" are in both directories, "999"
\* is in neither; -1 is a count the JSON decoder accepts
Records ==
    { StationStatus("22", 3, 1), StationStatus("22", 0, 4), StationStatus("22", -1, 0),
      StationStatus("126", 5, 2), StationStatus("999", 2, 3) }

Feeds == UNION { [1..n -> Records] : n \in 0..MaxFeedLen }

FetchErrors == {"get_error", "decode_error"}

Event(headers, params) ==
    [HTTPMethod |-> "GET", Path |-> "/", QueryStringParameters |-> params,
     Headers |-> headers, Body |-> "", SourceIP |-> "203.0.113.7"]

\* gateway events carry each header once, under the name the client sent
EventHeaders ==
    { NoHeaders,
      (sAccept :> sTextPlain),
      (sAcceptLower :> sTextPlain),
      (sAccept :> sTextPlainUpper),
      (sUserAgent :> sCurl7),
      (sUserAgentLower :> sCurlMixed),
      (sUserAgent :> sLibcurl),
      (sUserAgent :> sCurlNoSlash),
      (sUserAgent :> sMozilla) @@ (sAccept :> sTextHtml),
      (sAccept :> sTextHtml) @@ (sAcceptLower :> sTextPlain) }

EventParams == { NoParams, ("q" :> "1") }

Events == { Event(h, p) : h \in EventHeaders, p \in EventParams }

\* requests as net/http parses them: canonical names, every value of a name
HTTPRequest(header, query) ==
    [Method |-> "GET", Path |-> "/", Query |-> query, Header |-> header,
     Body |-> "", RemoteAddr |-> "198.51.100.9:4711"]

HTTPRequests ==
    { HTTPRequest(h, q) :
        h \in { EmptyHeader,
                (sAccept :> <<sTextPlain>>),
                (sAccept :> <<sTextHtml, sTextPlain>>),
                (sUserAgent :> <<sCurlMixed>>),
                (sUserAgent :> <<sMozilla>>) },
        q \in { NoParams } }

\* the inputs of the two-request specification
ConcFeeds ==
    { << >>,
      << StationStatus("22", 3, 1) >>,
      << StationStatus("126", 5, 2), StationStatus("999", 2, 3) >> }
ConcEvents == { Event(NoHeaders, NoParams), Event((sAccept :> sTextPlain), NoParams) }
ConcHTTPRequests == { HTTPRequest(EmptyHeader, NoParams) }

\* the calls of SpecRW
CallKeys == { sContentType, sXContentTypeOptions }
CallValues == { sTextPlainUtf8, sNosniff }
CallPayloads ==
    { << [t |-> "head"] >>,
      << [t |-> "region", Name |-> "Embarcadero"],
         [t |-> "rowstart", CSSClass |-> "", ID |-> "22", Name |-> "Howard St at Beale St"] >>,
      << [t |-> "error", msg |-> "Template Error"] >> }
CallCodes == { StatusOK, StatusInternalServerError }

(***************************************************************************)
(* Specifications.                                                          *)
(***************************************************************************)
Init ==
    /\ build \in Builds
    /\ Regions = RegionsOf(build)
    /\ req = [s \in Slots |-> Idle]
    /\ rw = newRespsonseWriter
    /\ calls = << >>

\* one request at a time, every input
Next ==
    \/ \E r0 \in HTTPRequests : ServeHTTP(1, r0)
    \/ \E ev \in Events : AWSHandlerEnter(1, ev)
    \/ \E ev \in Events : AWSHandlerEnterMain(1, ev)
    \/ \E kind \in FetchErrors : GetFails(1, kind)
    \/ \E feed \in Feeds : GetOK(1, feed)
    \/ Join(1)
    \/ Render(1)
    \/ Return(1)

Spec == Init /\ [][Next]_vars

\* two requests in flight, interleaved step by step
NextConc ==
    \E s \in Slots :
        \/ \E r0 \in ConcHTTPRequests : ServeHTTP(s, r0)
        \/ \E ev \in ConcEvents : AWSHandlerEnter(s, ev)
        \/ \E ev \in ConcEvents : AWSHandlerEnterMain(s, ev)
        \/ \E kind \in FetchErrors : GetFails(s, kind)
        \/ \E feed \in ConcFeeds : GetOK(s, feed)
        \/ Join(s)
        \/ Render(s)
        \/ Return(s)

SpecConc == Init /\ [][NextConc]_vars

\* a gateway ResponseWriter under every sequence of calls
InitRW ==
    /\ build = "part_000"
    /\ Regions = RegionsOf(build)
    /\ req = [s \in Slots |-> Idle]
    /\ rw = newRespsonseWriter
    /\ calls = << >>

NextRW ==
    \/ \E k \in CallKeys, v \in CallValues : CallSet(k, v)
    \/ \E v \in CallValues : CallAdd(sContentType, v)
    \/ \E p \in CallPayloads : CallWrite(p)
    \/ \E code \in CallCodes : CallWriteHeader(code)

SpecRW == InitRW /\ [][NextRW]_vars

(***************************************************************************)
(* Vocabulary of the properties.                                            *)
(***************************************************************************)
Directory == RegionsOf(build)

\* the positions <<i, j>> of the directory: station j of region i
Positions(regions) ==
    UNION { { <<i, j>> : j \in DOMAIN regions[i].Stations } : i \in DOMAIN regions }

InFeed(feed, id) == \E i \in DOMAIN feed : feed[i].ID = id

\* the last record of the feed that carries id
LastRecord(feed, id) ==
    feed[CHOOSE i \in DOMAIN feed :
            /\ feed[i].ID = id
            /\ \A k \in DOMAIN feed : feed[k].ID = id => k <= i]

\* the sums over every record of the feed
RECURSIVE SumEbikes(_)
SumEbikes(feed) ==
    IF feed = << >> THEN 0 ELSE feed[1].NumEbikesAvailable + SumEbikes(Tail(feed))

RECURSIVE SumBikes(_)
SumBikes(feed) ==
    IF feed = << >> THEN 0 ELSE feed[1].NumBikesAvailable + SumBikes(Tail(feed))

\* populateCounts has returned for the request
Joined(q) == q.pc \in {"render", "done"} /\ q.fetch = "ok"

\* the handler has returned after a successful fetch
Rendered(q) == q.pc = "done" /\ q.fetch = "ok"

\* what the client receives
OutBody(q) == IF q.entry = "aws" THEN q.resp.Body ELSE q.w.b
OutStatus(q) == IF q.entry = "aws" THEN q.resp.StatusCode ELSE q.w.status
OutHeaders(q) ==
    IF q.entry = "aws" THEN q.resp.Headers
    ELSE [k \in {x \in DOMAIN q.w.sent : Len(q.w.sent[x]) > 0} |-> q.w.sent[k][1]]
OutContentType(q) ==
    IF sContentType \in DOMAIN OutHeaders(q) THEN OutHeaders(q)[sContentType] ELSE sEmpty

HasPiece(body, kinds) == \E i \in DOMAIN body : body[i].t \in kinds
StationPieces == {"row", "rowstart", "line"}
HTMLPieces == {"head", "region", "row", "rowstart", "totals", "end"}

\* a displayed station has a negative count: the call of Bars fails
TemplateFails(q) ==
    \E p \in Positions(q.regions) : q.regions[p[1]].Stations[p[2]].Count < 0

\* the request asks for plain text: the first Accept value is "text/plain", or
\* the first User-Agent value, lower-cased, starts with "curl/"
AsksPlainText(r) ==
    \/ /\ sAccept \in DOMAIN r.Header
       /\ r.Header[sAccept][1] = sTextPlain
    \/ /\ sUserAgent \in DOMAIN r.Header
       /\ Len(r.Header[sUserAgent][1]) >= 5
       /\ \A i \in 1..5 : lowerCh(r.Header[sUserAgent][1][i]) = sCurlPrefix[i]

(***************************************************************************)
(* Properties of the join (Spec).                                           *)
(***************************************************************************)
\* C1: every directory station whose ID is in the feed gets a color tier that
\* is green, yellow or red, and the tier is a function of its e-bike count.
C1_PresentStationHasTier ==
    \A s \in Slots :
        Joined(req[s]) =>
            /\ \A p \in Positions(Directory) :
                 InFeed(req[s].feed, Directory[p[1]].Stations[p[2]].ID) =>
                    req[s].regions[p[1]].Stations[p[2]].CSSClass \in {green, yellow, red}
            /\ \A p, q \in Positions(Directory) :
                 /\ InFeed(req[s].feed, Directory[p[1]].Stations[p[2]].ID)
                 /\ InFeed(req[s].feed, Directory[q[1]].Stations[q[2]].ID)
                 /\ req[s].regions[p[1]].Stations[p[2]].Count
                      = req[s].regions[q[1]].Stations[q[2]].Count
                 => req[s].regions[p[1]].Stations[p[2]].CSSClass
                      = req[s].regions[q[1]].Stations[q[2]].CSSClass

\* C2: every directory station whose ID is absent from the feed is returned
\* with tier red and Count 0.
C2_AbsentStationIsRed ==
    \A s \in Slots :
        Joined(req[s]) =>
            \A p \in Positions(Directory) :
                ~InFeed(req[s].feed, Directory[p[1]].Stations[p[2]].ID) =>
                    /\ req[s].regions[p[1]].Stations[p[2]].CSSClass = red
                    /\ req[s].regions[p[1]].Stations[p[2]].Count = 0

\* a joined request whose feed has a directory station and misses others
C2_Witness ==
    \E s \in Slots :
        /\ Joined(req[s])
        /\ InFeed(req[s].feed, "22")
        /\ ~InFeed(req[s].feed, "126")
        /\ req[s].regions[3].Stations[2].ID = "126"
        /\ req[s].regions[3].Stations[2].CSSClass = red

\* C7: populateCounts returns the regions of the directory in order, each with
\* its stations in order and with ID and Name unchanged; the Count of a station
\* present in the feed is the num_ebikes_available of the record stored under
\* its ID; no station outside the directory is in the output.
C7_DirectoryShapeAndCounts ==
    \A s \in Slots :
        Joined(req[s]) =>
            /\ DOMAIN req[s].regions = DOMAIN Directory
            /\ \A i \in DOMAIN Directory :
                 /\ req[s].regions[i].Name = Directory[i].Name
                 /\ DOMAIN req[s].regions[i].Stations = DOMAIN Directory[i].Stations
            /\ \A p \in Positions(Directory) :
                 LET inf == Directory[p[1]].Stations[p[2]]
                     out == req[s].regions[p[1]].Stations[p[2]]
                 IN  /\ out.ID = inf.ID
                     /\ out.Name = inf.Name
                     /\ InFeed(req[s].feed, inf.ID) =>
                          /\ inf.ID \in DOMAIN req[s].stations
                          /\ out.Count = req[s].stations[inf.ID].NumEbikesAvailable
            /\ \A k \in DOMAIN req[s].feed :
                 (\A p \in Positions(Directory) :
                     Directory[p[1]].Stations[p[2]].ID # req[s].feed[k].ID) =>
                 (\A p \in Positions(req[s].regions) :
                     req[s].regions[p[1]].Stations[p[2]].ID # req[s].feed[k].ID)

\* a joined request whose feed has a directory station with bikes and a
\* station that is not in the directory
C7_Witness ==
    \E s \in Slots :
        /\ Joined(req[s])
        /\ InFeed(req[s].feed, "999")
        /\ InFeed(req[s].feed, "126")
        /\ req[s].regions[3].Stations[2].Count = 5
        /\ req[s].regions[1].Stations[1].ID = "22"

\* C10: with several records of one station_id the join uses the last one in
\* feed order, and the station counts as present (is not red).
C10_LastRecordWins ==
    \A s \in Slots :
        Joined(req[s]) =>
            \A p \in Positions(Directory) :
                LET out == req[s].regions[p[1]].Stations[p[2]]
                IN  InFeed(req[s].feed, out.ID) =>
                      /\ out.Count = LastRecord(req[s].feed, out.ID).NumEbikesAvailable
                      /\ out.CSSClass # red

\* a joined request whose feed has station 22 twice, with 3 and then 0 e-bikes
C10_Witness ==
    \E s \in Slots :
        /\ Joined(req[s])
        /\ Len(req[s].feed) >= 2
        /\ req[s].feed[1] = StationStatus("22", 3, 1)
        /\ req[s].feed[Len(req[s].feed)] = StationStatus("22", 0, 4)
        /\ req[s].regions[1].Stations[1].Count = 0

\* C9: the totals of the HTML output are the sums of num_ebikes_available and
\* num_bikes_available over every record of the feed.
C9_TotalsSumEveryRecord ==
    \A s \in Slots :
        (build = "part_000" /\ Joined(req[s])) =>
            /\ req[s].ebikeCount = SumEbikes(req[s].feed)
            /\ req[s].classicCount = SumBikes(req[s].feed)
            /\ (Rendered(req[s]) /\ ~AsksPlainText(req[s].r) /\ ~TemplateFails(req[s])) =>
                 \E i \in DOMAIN OutBody(req[s]) :
                    /\ OutBody(req[s])[i].t = "totals"
                    /\ OutBody(req[s])[i].EbikeCount = SumEbikes(req[s].feed)
                    /\ OutBody(req[s])[i].ClassicCount = SumBikes(req[s].feed)

\* an HTML page for a feed with a repeated station and a station that is not
\* in the directory
C9_Witness ==
    \E s \in Slots :
        /\ build = "part_000"
        /\ Rendered(req[s])
        /\ req[s].feed = << StationStatus("22", 3, 1), StationStatus("999", 2, 3),
                            StationStatus("22", 0, 4) >>
        /\ \E i \in DOMAIN OutBody(req[s]) :
              /\ OutBody(req[s])[i].t = "totals"
              /\ OutBody(req[s])[i].EbikeCount = 5
              /\ OutBody(req[s])[i].ClassicCount = 8

(***************************************************************************)
(* Properties of the handlers (Spec).                                       *)
(***************************************************************************)
\* C3: when the fetch fails (http.Get returns an error, or the body does not
\* decode) the request ends with status 500 on the direct and on the gateway
\* path, and no station row or station line is in the response.
C3_FetchFailureIs500 ==
    \A s \in Slots :
        (req[s].pc = "done" /\ req[s].fetch \in FetchErrors) =>
            /\ OutStatus(req[s]) = StatusInternalServerError
            /\ ~HasPiece(OutBody(req[s]), StationPieces)

\* a gateway request of part_000 whose feed did not decode
C3_Witness ==
    \E s \in Slots :
        /\ build = "part_000"
        /\ req[s].pc = "done"
        /\ req[s].entry = "aws"
        /\ req[s].fetch = "decode_error"
        /\ req[s].resp.StatusCode = StatusInternalServerError
        /\ req[s].resp.Body = << [t |-> "error", msg |-> "Get Status Failed"] >>

\* the two formats of index: plain text exactly when the request asks for it
\* (with Content-Type text/plain), the HTML template otherwise, never both
FormatFollowsRequest(q) ==
    LET body  == OutBody(q)
        plain == AsksPlainText(q.r)
    IN  /\ plain =>
             /\ \A i \in DOMAIN body : body[i].t = "line"
             /\ Len(body) = Cardinality(Positions(Directory))
             /\ OutContentType(q) = sTextPlain
        /\ ~plain =>
             /\ body # << >>
             /\ body[1].t = "head"
             /\ ~HasPiece(body, {"line"})
        /\ ~(HasPiece(body, {"line"}) /\ HasPiece(body, HTMLPieces))

\* C4: after a successful fetch index renders plain text (Content-Type
\* text/plain) exactly when Accept is "text/plain" or the lower-cased
\* User-Agent starts with "curl/", and the HTML template otherwise; through
\* the gateway the Content-Type of every HTML response is text/html; exactly
\* one format is written.
C4_Original ==
    \A s \in Slots :
        (build = "part_000" /\ Rendered(req[s])) =>
            /\ FormatFollowsRequest(req[s])
            /\ (~AsksPlainText(req[s].r) /\ req[s].entry = "aws") =>
                  OutContentType(req[s]) = sTextHtml

\* C4 (amended): as C4, but through the gateway the Content-Type of an HTML
\* response is text/html only when the template executes without error; when
\* it fails part-way, http.Error has replaced it by text/plain; charset=utf-8.
C4_FormatByRequest ==
    \A s \in Slots :
        (build = "part_000" /\ Rendered(req[s])) =>
            /\ FormatFollowsRequest(req[s])
            /\ (~AsksPlainText(req[s].r) /\ req[s].entry = "aws") =>
                  OutContentType(req[s]) =
                     IF TemplateFails(req[s]) THEN sTextPlainUtf8 ELSE sTextHtml

\* a gateway request with user-agent "CurL/8" answered in plain text
C4_Witness ==
    \E s \in Slots :
        /\ build = "part_000"
        /\ Rendered(req[s])
        /\ req[s].entry = "aws"
        /\ req[s].event.Headers = (sUserAgentLower :> sCurlMixed)
        /\ req[s].resp.Headers[sContentType] = sTextPlain
        /\ req[s].resp.Body[1].t = "line"

\* the header of the request under name k is the value the event carries
\* under k, or under a name that differs from k only in case
HeaderCopied(ev, r, k) ==
    \E k2 \in DOMAIN ev.Headers :
        /\ CanonicalMIMEHeaderKey(k2) = CanonicalMIMEHeaderKey(k)
        /\ Header_Get(r.Header, k) = ev.Headers[k2]

\* C5: for every gateway event, with or without query-string parameters,
\* newRequest completes and the request it returns carries the method, path,
\* query parameters, headers, body and source IP of the event, so AWSHandler
\* returns a response.
C5_NewRequestCopiesEvent ==
    \A s \in Slots :
        (build = "part_000" /\ req[s].entry = "aws") =>
            /\ req[s].pc # "panic"
            /\ req[s].r.Method = req[s].event.HTTPMethod
            /\ req[s].r.Path = req[s].event.Path
            /\ req[s].r.Query = req[s].event.QueryStringParameters
            /\ req[s].r.Body = req[s].event.Body
            /\ req[s].r.RemoteAddr = req[s].event.SourceIP
            /\ \A k \in DOMAIN req[s].event.Headers :
                  HeaderCopied(req[s].event, req[s].r, k)
            /\ req[s].pc = "done" => req[s].resp # NoResponse

(***************************************************************************)
(* Property of the package variable (SpecConc).                             *)
(***************************************************************************)
\* C6: after any sequence or interleaving of requests Regions is the
\* hardcoded directory (every Count 0, every tier empty), and what a request
\* gets from populateCounts is decided by its own feed alone.
C6_RegionsNeverWritten ==
    /\ Regions = RegionsOf(build)
    /\ \A p \in Positions(Regions) :
          /\ Regions[p[1]].Stations[p[2]].Count = 0
          /\ Regions[p[1]].Stations[p[2]].CSSClass = ""
    /\ \A s \in Slots :
          Joined(req[s]) =>
             /\ DOMAIN req[s].regions = DOMAIN Directory
             /\ \A p \in Positions(Directory) :
                  LET inf == Directory[p[1]].Stations[p[2]]
                      out == req[s].regions[p[1]].Stations[p[2]]
                  IN  out = IF InFeed(req[s].feed, inf.ID)
                            THEN [inf EXCEPT !.Count =
                                    LastRecord(req[s].feed, inf.ID).NumEbikesAvailable]
                            ELSE [inf EXCEPT !.CSSClass = red]

\* two requests in flight whose feeds differ: one has returned, the other has
\* joined after it
C6_Witness ==
    /\ req[1].pc = "done"
    /\ req[1].fetch = "ok"
    /\ Joined(req[2])
    /\ InFeed(req[1].feed, "22")
    /\ InFeed(req[2].feed, "126")
    /\ req[2].regions[1].Stations[1].CSSClass = red
    /\ req[1].regions[3].Stations[2].CSSClass = red

(***************************************************************************)
(* Property of the gateway ResponseWriter (SpecRW).                         *)
(***************************************************************************)
\* the argument of the most recent WriteHeader of the log, 200 without one
RECURSIVE LastStatus(_)
LastStatus(log) ==
    IF log = << >> THEN StatusOK
    ELSE IF log[Len(log)].op = "WriteHeader" THEN log[Len(log)].code
    ELSE LastStatus(SubSeq(log, 1, Len(log) - 1))

\* the payloads of the Write calls of the log, concatenated in call order
RECURSIVE AllWritten(_)
AllWritten(log) ==
    IF log = << >> THEN << >>
    ELSE IF log[1].op = "Write" THEN log[1].p \o AllWritten(Tail(log))
    ELSE AllWritten(Tail(log))

\* the calls of the log that give header k a value
ValueCalls(log, k) ==
    { i \in DOMAIN log : log[i].op \in {"Set", "Add"} /\ CanonicalMIMEHeaderKey(log[i].key) = k }
LastSet(log, k) ==
    { i \in ValueCalls(log, k) :
        /\ log[i].op = "Set"
        /\ \A j \in ValueCalls(log, k) : log[j].op = "Set" => j <= i }

\* the first value of header k after the calls of the log: that of the last
\* Set; without a Set, text/html for Content-Type, else that of the first Add
FirstValue(log, k) ==
    IF LastSet(log, k) # {} THEN log[CHOOSE i \in LastSet(log, k) : TRUE].value
    ELSE IF k = sContentType THEN sTextHtml
    ELSE log[CHOOSE i \in ValueCalls(log, k) : \A j \in ValueCalls(log, k) : i <= j].value

\* C8: after any sequence of Header().Set, Write and WriteHeader calls,
\* Response() has the status of the most recent WriteHeader (200 without one,
\* and the most recent one also when body bytes were written before it), the
\* concatenation of all Write payloads as body, and the first value of every
\* header that has one (Content-Type text/html unless overwritten); so a
\* failure after partial output gives status 500 with the partial HTML.
C8_ResponseReflectsCalls ==
    LET resp == Response(rw)
    IN  /\ resp.StatusCode = LastStatus(calls)
        /\ resp.Body = AllWritten(calls)
        /\ DOMAIN resp.Headers =
              {sContentType} \cup { CanonicalMIMEHeaderKey(calls[i].key) :
                                      i \in { j \in DOMAIN calls : calls[j].op \in {"Set", "Add"} } }
        /\ \A k \in DOMAIN resp.Headers : resp.Headers[k] = FirstValue(calls, k)

\* partial HTML was written, then http.Error: status 500, the partial HTML
\* still first in the body
C8_Witness ==
    /\ Len(calls) = 4
    /\ calls[1].op = "Write"
    /\ calls[1].p[1].t = "region"
    /\ calls[2].op = "Set"
    /\ calls[3] = [op |-> "WriteHeader", code |-> StatusInternalServerError]
    /\ calls[4] = [op |-> "Write", p |-> << [t |-> "error", msg |-> "Template Error"] >>]
    /\ Response(rw).StatusCode = StatusInternalServerError
    /\ Response(rw).Body[1].t = "region"
    /\ Response(rw).Body[3].t = "error"

====
